---- MODULE Spec2Model ----
(***************************************************************************)
(* Model of the procedural texture generator of zen-hp (TextureGenerator   *)
(* in the garden-elements module): the lazily built permutation table, the *)
(* gradient noise, the FBM combinator and the three raster generators.     *)
(*                                                                         *)
(* JavaScript numbers are modelled as exact rationals <<n, d>> with d > 0  *)
(* and gcd(n, d) = 1; the rounding error of IEEE doubles is not modelled.  *)
(* Math.random is a pseudo-random stream whose seed is chosen in Init.     *)
(***************************************************************************)
EXTENDS Integers, Sequences, FiniteSets, TLC

(***************************************************************************)
(* Bounds of the model.                                                    *)
(***************************************************************************)
\* number of Math.random seeds a process run may start from
NumSeeds == 2
\* number of generator calls in one process run
MaxCalls == 3
\* number of frames a particle is followed for
MaxFrames == 4
\* number of frames that may run between a setState and the render it schedules
MaxStale == 1

(***************************************************************************)
(* Rational arithmetic.                                                    *)
(***************************************************************************)
Abs(i) == IF i < 0 THEN -i ELSE i

RECURSIVE GCD(_, _)
GCD(a, b) == IF b = 0 THEN a ELSE GCD(b, a % b)

Norm(n, d) ==
  LET g == GCD(Abs(n), d) IN <<n \div g, d \div g>>

Q(n, d) == Norm(n, d)

I(k) == <<k, 1>>

Neg(a) == <<-a[1], a[2]>>

\* Infinity is <<1, 0>>, -Infinity <<-1, 0>> and NaN <<0, 0>>
IsFinite(a) == a[2] # 0

IsNaN(a) == a[1] = 0 /\ a[2] = 0

NaN == <<0, 0>>

Sign(i) == IF i > 0 THEN 1 ELSE IF i < 0 THEN -1 ELSE 0

Add(a, b) ==
  IF a[2] # 0 /\ b[2] # 0
  THEN LET g == GCD(a[2], b[2])
       IN  Norm(a[1] * (b[2] \div g) + b[1] * (a[2] \div g), (a[2] \div g) * b[2])
  ELSE IF IsNaN(a) \/ IsNaN(b) THEN NaN
  ELSE IF a[2] # 0 THEN b
  ELSE IF b[2] # 0 \/ a = b THEN a
  ELSE NaN

Sub(a, b) == Add(a, Neg(b))

Mul(a, b) ==
  LET g1 == GCD(Abs(a[1]), b[2])
      g2 == GCD(Abs(b[1]), a[2])
  IN  IF a[2] = 0 \/ b[2] = 0
      THEN <<Sign(a[1]) * Sign(b[1]), 0>>
      ELSE IF a[1] = 0 \/ b[1] = 0 THEN <<0, 1>>
      ELSE <<(a[1] \div g1) * (b[1] \div g2), (a[2] \div g2) * (b[2] \div g1)>>

Inv(a) == IF a[1] < 0 THEN <<-a[2], -a[1]>> ELSE <<a[2], a[1]>>

\* a / b; a zero divisor gives Infinity, -Infinity or NaN
Div(a, b) ==
  IF IsNaN(a) \/ IsNaN(b) THEN NaN
  ELSE IF b[1] = 0 THEN <<Sign(a[1]), 0>>
  ELSE IF b[2] = 0 THEN (IF a[2] = 0 THEN NaN ELSE <<0, 1>>)
  ELSE Mul(a, Inv(b))

\* the sign of a/b - c/d for b, d > 0, by the continued fractions of the two
\* (no product is formed, so no machine integer overflows)
RECURSIVE Cmp(_, _, _, _)
Cmp(a, b, c, d) ==
  LET q1 == a \div b
      q2 == c \div d
      r1 == a % b
      r2 == c % d
  IN  IF q1 < q2 THEN -1
      ELSE IF q1 > q2 THEN 1
      ELSE IF r1 = 0 /\ r2 = 0 THEN 0
      ELSE IF r1 = 0 THEN -1
      ELSE IF r2 = 0 THEN 1
      ELSE Cmp(d, r2, b, r1)

Lt(a, b) == Cmp(a[1], a[2], b[1], b[2]) < 0

Le(a, b) == Cmp(a[1], a[2], b[1], b[2]) <= 0

\* Math.floor
Floor(a) == a[1] \div a[2]

(***************************************************************************)
(* Math.random: a linear congruential stream; the state after a draw is    *)
(* the draw itself, the value returned is state / 65537, in [0, 1).        *)
(***************************************************************************)
RandomNext(s) == (s * 75 + 74) % 65537

RandomValue(s) == Q(s, 65537)

(***************************************************************************)
(* TextureGenerator.setup: Fisher-Yates shuffle of 0..255, mirrored to 512 *)
(***************************************************************************)
\* a swap that loses p[i]
SwapLossy(p, i, r) == [p EXCEPT ![i] = p[r]]

Swap(p, i, r) == [p EXCEPT ![i] = p[r], ![r] = p[i]]

\* one iteration of "for (let i = 255; i > 0; i--)" on st = [p, rng]
ShuffleStep(st, i) ==
  LET s1 == RandomNext(st.rng)
      r == Floor(Mul(RandomValue(s1), I(i + 1)))
  IN  [p |-> Swap(st.p, i, r), rng |-> s1]

\* the iterations i = hi, hi - 1, ..., lo of that loop, in this order
RECURSIVE ShuffleRange(_, _, _)
ShuffleRange(st, hi, lo) ==
  IF hi < lo THEN st
  ELSE IF hi = lo THEN ShuffleStep(st, hi)
  ELSE LET mid == (hi + lo + 1) \div 2
           upper == ShuffleRange(st, hi, mid)
       IN  \* the test makes the upper half be evaluated before the lower one
           IF upper.rng >= 0 THEN ShuffleRange(upper, mid - 1, lo) ELSE upper

Shuffle(p, i, s) == ShuffleRange([p |-> p, rng |-> s], i, 1)

\* setup() on generator state g = [perm, init, rng]
\* "for (let i = 0; i < 512; i++) this.perm[i] = p[i & 255]; this.init = true"
mirror(sh) ==
  [perm |-> [i \in 0..511 |-> sh.p[i % 256]], init |-> TRUE, rng |-> sh.rng]

\* setup without its test of init
setupAlways(g) == mirror(Shuffle([i \in 0..255 |-> i], 255, g.rng))

setup(g) ==
  IF g.init THEN g
  ELSE mirror(Shuffle([i \in 0..255 |-> i], 255, g.rng))

(***************************************************************************)
(* fade, lerp, grad, noise, fbm                                            *)
(***************************************************************************)
\* a curve that is 0 at both ends of the cell
fadeOffset(t) ==
  Mul(Mul(Mul(t, t), t), Add(Mul(t, Sub(Mul(t, I(6)), I(15))), I(9)))

fade(t) ==
  Mul(Mul(Mul(t, t), t), Add(Mul(t, Sub(Mul(t, I(6)), I(15))), I(10)))

lerp(t, a, b) == Add(a, Mul(t, Sub(b, a)))

\* a gradient with a constant term
gradBiased(hash, x, y, z) ==
  LET h == hash % 16
      u == IF h < 8 THEN x ELSE y
      v == IF h < 4 THEN y ELSE (IF h = 12 \/ h = 14 THEN x ELSE z)
  IN  Add(Add(IF h % 2 = 0 THEN u ELSE Neg(u),
              IF (h \div 2) % 2 = 0 THEN v ELSE Neg(v)), <<1, 16>>)

\* what a read outside the table gives; "undefined & 15" is 0
Undefined == -1

grad(hash, x, y, z) ==
  LET h == IF hash = Undefined THEN 0 ELSE hash % 16
      u == IF h < 8 THEN x ELSE y
      v == IF h < 4 THEN y ELSE (IF h = 12 \/ h = 14 THEN x ELSE z)
  IN  Add(IF h % 2 = 0 THEN u ELSE Neg(u),
          IF (h \div 2) % 2 = 0 THEN v ELSE Neg(v))

\* the table lookups and interpolation of noise on the table P, in the lattice
\* cell (X, Y, Z) at the offsets (x, y, z) from its corner
\* this.perm[i]: a read outside a typed array gives undefined, the sum of
\* undefined and a number is NaN, and perm[NaN] is undefined again
at(P, i) == IF i \in DOMAIN P THEN P[i] ELSE Undefined

\* the indexes A, AA, AB, B, BA, BB of noise in the cell (X, Y, Z)
noiseIndexes(P, X, Y, Z) ==
  LET plus(e, k) == IF e = Undefined THEN Undefined ELSE e + k
      A == plus(at(P, X), Y)
      B == plus(at(P, X + 1), Y)
  IN  [A |-> A, AA |-> plus(at(P, A), Z), AB |-> plus(at(P, plus(A, 1)), Z),
       B |-> B, BA |-> plus(at(P, B), Z), BB |-> plus(at(P, plus(B, 1)), Z)]

noiseCell(P, k, x, y, z) ==
  LET u == fade(x)
      v == fade(y)
      w == fade(z)
      x1 == Sub(x, I(1))
      y1 == Sub(y, I(1))
      z1 == Sub(z, I(1))
      next(e) == IF e = Undefined THEN Undefined ELSE e + 1
  IN  lerp(w, lerp(v, lerp(u, grad(at(P, k.AA), x, y, z), grad(at(P, k.BA), x1, y, z)),
                      lerp(u, grad(at(P, k.AB), x, y1, z), grad(at(P, k.BB), x1, y1, z))),
              lerp(v, lerp(u, grad(at(P, next(k.AA)), x, y, z1),
                              grad(at(P, next(k.BA)), x1, y, z1)),
                      lerp(u, grad(at(P, next(k.AB)), x, y1, z1),
                              grad(at(P, next(k.BB)), x1, y1, z1))))

\* a mask of nine bits
cellIndexWide(v) == Floor(v) % 512

\* Math.floor(v) & 255
cellIndex(v) == Floor(v) % 256

\* the cell and the offsets of the coordinates (x0, y0, z0), then the lookups
noiseP(P, x0, y0, z0) ==
  noiseCell(P, noiseIndexes(P, cellIndex(x0), cellIndex(y0), cellIndex(z0)),
            Sub(x0, I(Floor(x0))), Sub(y0, I(Floor(y0))), Sub(z0, I(Floor(z0))))

\* noise(x, y, z) on generator state g: [g |-> state after the call, value |-> result]
noiseInit(g1, x, y, z) == [g |-> g1, value |-> noiseP(g1.perm, x, y, z)]

\* noise building a table of its own at every call
noiseRebuilding(g, x, y, z) ==
  noiseInit(mirror(Shuffle([i \in 0..255 |-> i], 255, g.rng)), x, y, z)

\* noise without its call of setup
noiseNoSetup(g, x, y, z) == noiseInit(g, x, y, z)

noise(g, x, y, z) == noiseInit(IF ~g.init THEN setup(g) ELSE g, x, y, z)

\* default values of the parameters persistence and scale of fbm
DefaultPersistence == <<1, 2>>

DefaultScale == <<1, 1>>

\* fbm starting at frequency 1 whatever the scale
fbmStartUnscaled(g, scale) ==
  [g |-> g, total |-> I(0), frequency |-> I(1), amplitude |-> I(1), maxValue |-> I(0),
   evals |-> 0]

\* the state of fbm before its loop; evals counts the calls of noise
fbmStart(g, scale) ==
  [g |-> g, total |-> I(0), frequency |-> scale, amplitude |-> I(1), maxValue |-> I(0),
   evals |-> 0]

\* an iteration that triples the frequency
fbmAccumulateTripling(acc, n, persistence) ==
  [g |-> n.g,
   total |-> Add(acc.total, Mul(n.value, acc.amplitude)),
   maxValue |-> Add(acc.maxValue, acc.amplitude),
   amplitude |-> Mul(acc.amplitude, persistence),
   frequency |-> Mul(acc.frequency, I(3)),
   evals |-> acc.evals + 1]

\* the assignments of one iteration of the loop of fbm, n the result of its noise call
fbmAccumulate(acc, n, persistence) ==
  [g |-> n.g,
   total |-> Add(acc.total, Mul(n.value, acc.amplitude)),
   maxValue |-> Add(acc.maxValue, acc.amplitude),
   amplitude |-> Mul(acc.amplitude, persistence),
   frequency |-> Mul(acc.frequency, I(2)),
   evals |-> acc.evals + 1]

\* one iteration of the loop of fbm
fbmOctave(acc, x, y, z, persistence) ==
  fbmAccumulate(acc,
                noise(acc.g, Mul(x, acc.frequency), Mul(y, acc.frequency),
                      Mul(z, acc.frequency)),
                persistence)

RECURSIVE fbmLoop(_, _, _, _, _, _, _)
fbmLoop(acc, x, y, z, octaves, persistence, i) ==
  IF i < octaves
  THEN fbmLoop(fbmOctave(acc, x, y, z, persistence), x, y, z, octaves, persistence, i + 1)
  ELSE acc

\* fbm(x, y, z, octaves, persistence, scale): [g |-> state after, value |-> result]
fbmResult(acc) ==
  [g |-> acc.g, value |-> Div(acc.total, acc.maxValue), evals |-> acc.evals,
   maxValue |-> acc.maxValue]

fbm(g, x, y, z, octaves, persistence, scale) ==
  fbmResult(fbmLoop(fbmStart(g, scale), x, y, z, octaves, persistence, 0))

(***************************************************************************)
(* Platform functions used by the generators.                              *)
(***************************************************************************)
\* the conversion of a Uint8Array: truncate, then wrap modulo 256
ToUint8Wrap(v) ==
  IF ~IsFinite(v) THEN 0
  ELSE (IF v[1] < 0 THEN -((-v[1]) \div v[2]) ELSE v[1] \div v[2]) % 256

\* the conversion of a number stored into ImageData.data (a Uint8ClampedArray):
\* clamp to [0, 255], then round to the nearest integer, ties to even
ToUint8Clamp(v) ==
  IF ~IsFinite(v) THEN (IF v[1] > 0 THEN 255 ELSE 0)
  ELSE IF Le(v, I(0)) THEN 0
  ELSE IF Le(I(255), v) THEN 255
  ELSE LET f == Floor(v)
           d == Sub(v, I(f))
       IN  IF Lt(d, <<1, 2>>) THEN f
           ELSE IF Lt(<<1, 2>>, d) THEN f + 1
           ELSE IF f % 2 = 0 THEN f ELSE f + 1

\* Math.max(0, Math.min(255, v))
MaxMin(v) ==
  IF Lt(I(255), v) THEN I(255) ELSE IF Lt(v, I(0)) THEN I(0) ELSE v

\* the conversion of a number stored into a Float32Array, kept to six binary places
\* (the squares of finer values in the gradient pass leave the machine integers)
fround(v) ==
  IF ~IsFinite(v) THEN v ELSE Q(Floor(Add(Mul(v, I(64)), <<1, 2>>)), 64)

\* Math.sin, by Bhaskara's formula with pi = 22/7, kept to three binary places
\* (the exact arithmetic of fade on finer coordinates leaves the machine integers)
sin(a) ==
  LET pi == <<22, 7>>
      turns == Floor(Div(a, Mul(I(2), pi)))
      t == Sub(a, Mul(I(turns), Mul(I(2), pi)))
      neg == Le(pi, t)
      x == IF neg THEN Sub(t, pi) ELSE t
      xpx == Mul(x, Sub(pi, x))
      s == Div(Mul(I(16), xpx), Sub(Mul(I(5), Mul(pi, pi)), Mul(I(4), xpx)))
      eighths == Floor(Add(Mul(s, I(8)), <<1, 2>>))
  IN  IF neg THEN Q(-eighths, 8) ELSE Q(eighths, 8)

(***************************************************************************)
(* createOrganicTexture: the colour rules of the pixel loop.               *)
(***************************************************************************)
OrganicTypes == {"granite", "bamboo", "wood", "sand", "roughness", "moss"}

\* granite with the addition made before the halving
graniteColorAddFirst(n1, n2, n3) ==
  LET baseVal == Add(<<2, 5>>, Mul(n1, <<3, 10>>))
      r0 == Mul(baseVal, I(160))
      g0 == Mul(baseVal, I(165))
      b0 == Mul(baseVal, I(170))
      light == Lt(<<7, 10>>, n3)
      r1 == IF light THEN Add(r0, I(40)) ELSE r0
      g1 == IF light THEN Add(g0, I(40)) ELSE g0
      b1 == IF light THEN Add(b0, I(40)) ELSE b0
      dark == Lt(n2, <<3, 10>>)
  IN  IF dark THEN <<Mul(r1, <<1, 2>>), Mul(g1, <<1, 2>>), Mul(b1, <<1, 2>>)>>
      ELSE <<r1, g1, b1>>

\* granite: the three channels from the samples n1, n2, n3
graniteColor(n1, n2, n3) ==
  LET baseVal == Add(<<2, 5>>, Mul(n1, <<3, 10>>))
      r0 == Mul(baseVal, I(160))
      g0 == Mul(baseVal, I(165))
      b0 == Mul(baseVal, I(170))
      dark == Lt(n2, <<3, 10>>)
      r1 == IF dark THEN Mul(r0, <<1, 2>>) ELSE r0
      g1 == IF dark THEN Mul(g0, <<1, 2>>) ELSE g0
      b1 == IF dark THEN Mul(b0, <<1, 2>>) ELSE b0
      light == Lt(<<7, 10>>, n3)
  IN  IF light THEN <<Add(r1, I(40)), Add(g1, I(40)), Add(b1, I(40))>>
      ELSE <<r1, g1, b1>>

\* bamboo: the three channels before Math.max(0, Math.min(255, .))
bambooColor(fiber, stain) ==
  LET baseR == I(110)
      baseG == I(140)
      baseB == I(80)
      fiberVar == Mul(Sub(fiber, <<1, 2>>), I(40))
      stainVar == Mul(Sub(stain, <<1, 2>>), I(50))
  IN  <<Sub(Add(baseR, fiberVar), Mul(stainVar, <<1, 2>>)),
        Sub(Add(baseG, fiberVar), Mul(stainVar, <<1, 2>>)),
        Sub(Add(baseB, fiberVar), Mul(stainVar, <<4, 5>>))>>

woodColor(grain) ==
  <<Add(I(120), Mul(grain, I(30))),
    Add(I(20), Mul(grain, I(10))),
    Add(I(15), Mul(grain, I(10)))>>

sandColor(grain, patch) ==
  LET val == Add(Add(I(200), Mul(grain, I(40))), Mul(patch, I(15)))
  IN  <<val, val, Sub(val, I(5))>>

\* what an iteration of the pixel loop yields: g the generator state after it,
\* combined the channel values computed, assigned the four numbers assigned to
\* data[i..i+3] (<<>> when none is)
pixelResult(g, combined, assigned) ==
  [g |-> g, combined |-> combined, assigned |-> assigned]

opaque(c) == <<c[1], c[2], c[3], I(255)>>

\* granite: n1, then n2, then n3, then the colour
granite3(n1, n2, n3) ==
  pixelResult(n3.g, graniteColor(n1.value, n2.value, n3.value),
              opaque(graniteColor(n1.value, n2.value, n3.value)))

granite2(n1, n2, nx, ny) ==
  granite3(n1, n2,
           fbm(n2.g, Mul(nx, I(100)), Mul(ny, I(100)), I(20), 2, <<1, 2>>, DefaultScale))

granite1(n1, nx, ny) ==
  granite2(n1,
           fbm(n1.g, Mul(nx, I(50)), Mul(ny, I(50)), I(10), 3, <<1, 2>>, DefaultScale),
           nx, ny)

granitePixel(g, nx, ny) ==
  granite1(fbm(g, Mul(nx, I(15)), Mul(ny, I(15)), I(0), 4, <<1, 2>>, DefaultScale),
           nx, ny)

\* bamboo: fiber, then stain, then the clamped colour
clamped(c) == <<MaxMin(c[1]), MaxMin(c[2]), MaxMin(c[3]), I(255)>>

bamboo2(fiber, stain) ==
  pixelResult(stain.g, bambooColor(fiber.value, stain.value),
              clamped(bambooColor(fiber.value, stain.value)))

bamboo1(fiber, nx, ny) ==
  bamboo2(fiber,
          fbm(fiber.g, Mul(nx, I(4)), Mul(ny, I(6)), I(32), 4, <<1, 2>>, DefaultScale))

bambooPixel(g, nx, ny) ==
  bamboo1(fbm(g, Mul(nx, I(80)), Mul(ny, I(2)), I(0), 5, <<3, 5>>, DefaultScale), nx, ny)

wood1(grain) ==
  pixelResult(grain.g, woodColor(grain.value), opaque(woodColor(grain.value)))

woodPixel(g, nx, ny) ==
  wood1(fbm(g, Mul(nx, I(6)), Add(Mul(ny, I(40)), Mul(sin(Mul(nx, I(10))), I(3))),
            I(5), 4, DefaultPersistence, DefaultScale))

sand2(grain, patch) ==
  pixelResult(patch.g, sandColor(grain.value, patch.value),
              opaque(sandColor(grain.value, patch.value)))

sand1(grain, nx, ny) ==
  sand2(grain,
        fbm(grain.g, Mul(nx, I(5)), Mul(ny, I(5)), I(10), 3, DefaultPersistence,
            DefaultScale))

sandPixel(g, nx, ny) ==
  sand1(fbm(g, Mul(nx, I(150)), Mul(ny, I(150)), I(0), 2, DefaultPersistence,
            DefaultScale), nx, ny)

\* the body of the pixel loop at normalised coordinates (nx, ny)
organicPixel(g, type, nx, ny) ==
  CASE type = "granite" -> granitePixel(g, nx, ny)
    [] type = "bamboo" -> bambooPixel(g, nx, ny)
    [] type = "wood" -> woodPixel(g, nx, ny)
    [] type = "sand" -> sandPixel(g, nx, ny)
    [] OTHER -> pixelResult(g, <<>>, <<>>)

\* data[i] = a[1]; data[i + 1] = a[2]; data[i + 2] = a[3]; data[i + 3] = a[4]
storePixel(data, i, a) ==
  IF a = <<>> THEN data
  ELSE [data EXCEPT ![i] = ToUint8Clamp(a[1]), ![i + 1] = ToUint8Clamp(a[2]),
                    ![i + 2] = ToUint8Clamp(a[3]), ![i + 3] = ToUint8Clamp(a[4])]

(***************************************************************************)
(* createRoughnessMap: the rules of the pixel loop.                        *)
(***************************************************************************)
RoughnessTypes == {"stone", "bamboo", "sand"}

\* the FBM sample of a roughness pixel
roughnessSample(g, type, nx, ny) ==
  CASE type = "stone" ->
         fbm(g, Mul(nx, I(60)), Mul(ny, I(60)), I(5), 3, DefaultPersistence, DefaultScale)
    [] type = "bamboo" ->
         fbm(g, Mul(nx, I(100)), Mul(ny, I(2)), I(0), 2, DefaultPersistence, DefaultScale)
    [] type = "sand" ->
         fbm(g, Mul(nx, I(100)), Mul(ny, I(100)), I(0), 2, DefaultPersistence, DefaultScale)

\* the rule of stone applied to every type
roughnessValueStone(type, n) == Add(<<2, 5>>, Mul(n, <<3, 5>>))

\* val: base offset plus scaled sample
roughnessValue(type, n) ==
  CASE type = "stone" -> Add(<<2, 5>>, Mul(n, <<3, 5>>))
    [] type = "bamboo" -> Add(<<1, 5>>, Mul(n, <<3, 10>>))
    [] type = "sand" -> Add(<<4, 5>>, Mul(n, <<1, 5>>))
    [] OTHER -> <<1, 2>>

\* data[i] = val * 255; data[i+1] = val * 255; data[i+2] = val * 255; data[i+3] = 255
roughnessAssigned(val) ==
  <<Mul(val, I(255)), Mul(val, I(255)), Mul(val, I(255)), I(255)>>

roughness1(type, n) ==
  [g |-> n.g, sample |-> n.value, val |-> roughnessValue(type, n.value),
   assigned |-> roughnessAssigned(roughnessValue(type, n.value))]

roughnessPixel(g, type, nx, ny) == roughness1(type, roughnessSample(g, type, nx, ny))

(***************************************************************************)
(* createNormalMap: height samples.                                        *)
(***************************************************************************)
NormalTypes == {"generic", "bamboo", "stone"}

heightSample(g, type, nx, ny) ==
  CASE type = "bamboo" ->
         fbm(g, Mul(nx, I(150)), Mul(ny, I(5)), I(0), 3, DefaultPersistence, DefaultScale)
    [] type = "stone" ->
         fbm(g, Mul(nx, I(20)), Mul(ny, I(20)), I(99), 5, DefaultPersistence, DefaultScale)
    [] OTHER ->
         fbm(g, Mul(nx, I(10)), Mul(ny, I(10)), I(99), 4, DefaultPersistence, DefaultScale)

(***************************************************************************)
(* Math.sqrt: the argument is scaled by the largest power of four that     *)
(* keeps it below 2^30, and the integer square root of that is taken.      *)
(***************************************************************************)
\* the largest s with s * s <= m, sought in lo..hi
RECURSIVE ISqrtIn(_, _, _)
ISqrtIn(m, lo, hi) ==
  IF lo >= hi THEN lo
  ELSE LET mid == (lo + hi + 1) \div 2
       IN  IF mid * mid <= m THEN ISqrtIn(m, mid, hi) ELSE ISqrtIn(m, lo, mid - 1)

ISqrt(m) == ISqrtIn(m, 0, 32768)

\* [m, k] with m = floor((ip + r / d) * 4^k), for the largest k <= 15 keeping m < 2^30
RECURSIVE ScaleUp(_, _, _, _)
ScaleUp(m, r, d, k) ==
  IF k >= 15 \/ m >= 268435456 \/ d >= 536870912 THEN [m |-> m, k |-> k]
  ELSE LET r1 == 2 * r
           b1 == IF r1 >= d THEN 1 ELSE 0
           r2 == 2 * (r1 - b1 * d)
           b2 == IF r2 >= d THEN 1 ELSE 0
       IN  ScaleUp(4 * m + 2 * b1 + b2, r2 - b2 * d, d, k + 1)

RECURSIVE Pow2(_)
Pow2(k) == IF k = 0 THEN 1 ELSE 2 * Pow2(k - 1)

sqrtScaled(sc) == Q(ISqrt(sc.m), Pow2(sc.k))

sqrt(a) ==
  IF a[2] = 0 THEN a
  ELSE IF a[1] < 0 THEN NaN
  ELSE sqrtScaled(ScaleUp(a[1] \div a[2], a[1] % a[2], a[2], 0))

(***************************************************************************)
(* createNormalMap: the gradient pass.                                     *)
(***************************************************************************)
\* reads that stop at the edges of the raster
sobelReadsClamped(width, height, x, y) ==
  [x1 |-> y * width + (IF x = 0 THEN 0 ELSE x - 1),
   x2 |-> y * width + (IF x = width - 1 THEN x ELSE x + 1),
   y1 |-> (IF y = 0 THEN 0 ELSE y - 1) * width + x,
   y2 |-> (IF y = height - 1 THEN y ELSE y + 1) * width + x]

\* the four reads of the height buffer at pixel (x, y)
sobelReads(width, height, x, y) ==
  [x1 |-> y * width + ((x - 1 + width) % width),
   x2 |-> y * width + ((x + 1) % width),
   y1 |-> ((y - 1 + height) % height) * width + x,
   y2 |-> ((y + 1) % height) * width + x]

\* the body of the gradient loop at pixel (x, y)
sobelEncode(dx, dy, dz, len) ==
  [dx |-> dx, dy |-> dy, dz |-> dz, len |-> len,
   assigned |-> <<Mul(Add(Mul(Div(dx, len), <<1, 2>>), <<1, 2>>), I(255)),
                  Mul(Add(Mul(Div(dy, len), <<1, 2>>), <<1, 2>>), I(255)),
                  Mul(Div(dz, len), I(255)),
                  I(255)>>]

sobelGradient(dx, dy, dz) ==
  sobelEncode(dx, dy, dz, sqrt(Add(Add(Mul(dx, dx), Mul(dy, dy)), Mul(dz, dz))))

sobelAt(buffer, rd, strength) ==
  sobelGradient(Mul(Sub(buffer[rd.x1], buffer[rd.x2]), strength),
                Mul(Sub(buffer[rd.y1], buffer[rd.y2]), strength),
                Div(I(1), strength))

sobelPixel(buffer, width, height, x, y, strength) ==
  sobelAt(buffer, sobelReads(width, height, x, y), strength)

(***************************************************************************)
(* The canvas: putImageData and the scuff overlay of bamboo textures.      *)
(***************************************************************************)
\* source-over of the fill colour rgba(60, 50, 30, 0.1) on a pixel: old the byte
\* of channel c of the pixel, a its alpha byte.  On an opaque pixel this is one
\* tenth of the fill colour on nine tenths of the pixel.
blend(old, a, c) ==
  IF c = 3 THEN (255 + 9 * a + 5) \div 10
  ELSE (<<60, 50, 30>>[c + 1] * 255 + old * a * 9 + (255 + 9 * a) \div 2)
         \div (255 + 9 * a)

\* ctx.fillRect(rx, ry, w, h) on the pixels the image data was put on, width of
\* them in a row: every pixel whose centre lies in the rectangle is blended
fillRect(canvas, width, height, rx, ry, w, h) ==
  LET covered(px, py) ==
        /\ Le(rx, Q(2 * px + 1, 2)) /\ Lt(Q(2 * px + 1, 2), Add(rx, w))
        /\ Le(ry, Q(2 * py + 1, 2)) /\ Lt(Q(2 * py + 1, 2), Add(ry, h))
  IN  [i \in DOMAIN canvas |->
         LET k == i \div 4
         IN  IF covered(k % width, k \div width)
             THEN blend(canvas[i], canvas[4 * k + 3], i % 4) ELSE canvas[i]]

\* one iteration of "for (let k = 0; k < 30; k++)" on st = [canvas, rng]
scuffRect(canvas, width, height, s1, s2, s3, s4) ==
  [canvas |-> fillRect(canvas, Abs(width), Abs(height),
                       Mul(RandomValue(s1), I(width)),
                       Mul(RandomValue(s2), I(height)),
                       Add(I(2), Mul(RandomValue(s3), I(5))),
                       Add(I(10), Mul(RandomValue(s4), I(30)))),
   rng |-> s4]

scuffStep(st, width, height) ==
  scuffRect(st.canvas, width, height,
            RandomNext(st.rng),
            RandomNext(RandomNext(st.rng)),
            RandomNext(RandomNext(RandomNext(st.rng))),
            RandomNext(RandomNext(RandomNext(RandomNext(st.rng)))))

RECURSIVE scuffLoop(_, _, _, _)
scuffLoop(st, width, height, k) ==
  \* the test on st.rng makes an iteration be evaluated before the next starts
  IF k < 30 /\ st.rng >= 0
  THEN scuffLoop(scuffStep(st, width, height), width, height, k + 1)
  ELSE st

\* the scuff overlay applied whatever the type
overlaysAlways(canvas, rng0, width, height, type) ==
  scuffLoop([canvas |-> canvas, rng |-> rng0], width, height, 0)

\* the post-process overlays: [canvas, rng] after them
overlays(canvas, rng0, width, height, type) ==
  IF type = "bamboo"
  THEN scuffLoop([canvas |-> canvas, rng |-> rng0], width, height, 0)
  ELSE [canvas |-> canvas, rng |-> rng0]

(***************************************************************************)
(* Inputs of the model.                                                    *)
(***************************************************************************)
Request(gen, width, height, type, strength) ==
  [gen |-> gen, width |-> width, height |-> height, type |-> type, strength |-> strength]

\* the calls made by the scene's components, on rasters of a few pixels
SceneRequests ==
  { Request("organic", 2, 1, "granite", 0),
    Request("organic", 1, 3, "bamboo", 0),
    Request("roughness", 3, 1, "sand", 0),
    Request("normal", 3, 1, "generic", 5) }

\* raster sizes of the calls of the pixel specification
Sizes == {<<1, 1>>, <<2, 2>>, <<3, 1>>, <<1, 3>>, <<3, 2>>, <<1, 4>>, <<8, 1>>}

\* sizes with a zero or negative dimension
BadSizes == {<<0, 2>>, <<2, 0>>, <<0, 0>>, <<-1, 2>>, <<2, -1>>, <<-1, -2>>}

Strengths == {-3, 0, 3, 15}

PixelRequests ==
  { Request("organic", s[1], s[2], t, 0) : s \in Sizes \cup BadSizes, t \in OrganicTypes }
    \cup { Request("roughness", s[1], s[2], t, 0) :
              s \in Sizes \cup BadSizes, t \in RoughnessTypes }
    \cup { Request("normal", s[1], s[2], t, k) :
              s \in Sizes \cup BadSizes, t \in NormalTypes, k \in Strengths }

Requests == SceneRequests \cup PixelRequests

\* coordinates of the direct calls of noise
NoiseProbes == {<<<<1, 2>>, <<1, 2>>, <<0, 1>>>>, <<<<1, 3>>, <<0, 1>>, <<1, 2>>>>}

\* coordinates of the calls of the noise specification: lattice points, among
\* them the ends of the table, and points inside cells
NoiseCoords ==
  {<<-1, 1>>, <<0, 1>>, <<1, 4>>, <<1, 2>>, <<3, 4>>, <<1, 1>>, <<511, 2>>, <<256, 1>>}

NoiseInputs == { <<x, y, z>> : x \in NoiseCoords, y \in NoiseCoords, z \in NoiseCoords }

\* arguments of the direct calls of fbm
FbmArgs(x, y, z, octaves, persistence, scale) ==
  [x |-> x, y |-> y, z |-> z, octaves |-> octaves, persistence |-> persistence,
   scale |-> scale]

FbmProbes == {FbmArgs(<<1, 2>>, <<1, 3>>, <<0, 1>>, 2, <<1, 2>>, <<1, 1>>)}

MaxOctaves == 3

Coords == {<<-1, 2>>, <<0, 1>>, <<1, 3>>, <<7, 3>>}

FbmInputs ==
  { FbmArgs(x, y, z, o, p, s) :
      x \in Coords, y \in Coords, z \in Coords, o \in 0..MaxOctaves,
      p \in {<<1, 2>>, <<3, 5>>}, s \in {<<1, 1>>, <<2, 1>>, <<3, 1>>} }

\* FBM samples handed to the roughness rules: the multiples of 1/SampleDen in [-1, 1]
SampleDen == 20

Samples == { Q(k, SampleDen) : k \in (-SampleDen)..SampleDen }

\* samples n1 handed to the colour rule of granite
BaseSamples == {<<-1, 1>>, <<0, 1>>, <<1, 2>>}

(***************************************************************************)
(* State.                                                                  *)
(***************************************************************************)
VARIABLES
  perm,        \* TextureGenerator.perm
  init,        \* TextureGenerator.init
  rng,         \* the state of Math.random
  pc,          \* "idle", or the loop the running generator call is in
  req,         \* the arguments of the running generator call
  cur,         \* the pixel index y * width + x the running loop is at
  data,        \* imgData.data of the running call
  buffer,      \* the height buffer of the running createNormalMap call
  chan,        \* what the last loop iteration computed
  ret,         \* the last call and what it returned
  synthCount,  \* per request, how many times its pixel loops were started
  returned,    \* the textures returned so far, each with its request
  noiseLog,    \* the direct noise calls so far: arguments, result, number of the call
  calls,       \* number of calls made so far
  filled,      \* the cells of buffer the running call has assigned
  stored,      \* the pixels whose loop iteration the running call has completed
  particles,   \* one particle of GenerateParticles: its position, seed and clock
  shishi,      \* ShishiOdoshi: state, the scheduled state, fillLevel, rotation.z
  app          \* App: season, timeOfDay, activeHaiku, and the haiku of each ZenStone

genVars == <<perm, init, rng, pc, req, cur, data, buffer, chan, ret, synthCount,
             returned, noiseLog, calls, filled, stored>>

sceneVars == <<particles, shishi, app>>

vars == <<genVars, sceneVars>>

gen == [perm |-> perm, init |-> init, rng |-> rng]

SetGen(g) == perm' = g.perm /\ init' = g.init /\ rng' = g.rng

NoRequest == Request("none", 0, 0, "none", 0)

\* activeHaiku when no haiku is shown (null); the haikus are numbered from 1
NoHaiku == 0

Init ==
  /\ perm = [i \in 0..511 |-> 0]
  /\ init = FALSE
  /\ rng \in 1..NumSeeds
  /\ pc = "idle"
  /\ req = NoRequest
  /\ cur = 0
  /\ data = <<>>
  /\ buffer = <<>>
  /\ chan = [kind |-> "none"]
  /\ ret = [op |-> "none"]
  /\ synthCount = [r \in Requests |-> 0]
  /\ returned = {}
  /\ noiseLog = {}
  /\ calls = 0
  /\ filled = {}
  /\ stored = {}
  /\ particles = [mounted |-> FALSE]
  /\ shishi = [state |-> "filling", next |-> "filling", fillLevel |-> 0,
               rotation |-> 0, stale |-> 0]
  /\ app = [season |-> "Spring", timeOfDay |-> "Day", activeHaiku |-> NoHaiku,
            haiku |-> <<>>, event |-> [kind |-> "none", arg |-> 0]]

(***************************************************************************)
(* Direct calls of setup, noise and fbm.                                   *)
(***************************************************************************)
Setup ==
  /\ pc = "idle" /\ calls < MaxCalls
  /\ SetGen(setup(gen))
  /\ ret' = [op |-> "setup"]
  /\ calls' = calls + 1
  /\ UNCHANGED <<pc, req, cur, data, buffer, chan, synthCount, returned, noiseLog,
                 filled, stored>>
  /\ UNCHANGED sceneVars

NoiseResult(c, n) ==
  /\ SetGen(n.g)
  /\ ret' = [op |-> "noise", args |-> c, value |-> n.value]
  /\ noiseLog' = noiseLog \cup {[args |-> c, value |-> n.value, at |-> calls + 1]}

Noise(c) ==
  /\ pc = "idle" /\ calls < MaxCalls
  /\ NoiseResult(c, noise(gen, c[1], c[2], c[3]))
  /\ calls' = calls + 1
  /\ UNCHANGED <<pc, req, cur, data, buffer, chan, synthCount, returned, filled, stored>>
  /\ UNCHANGED sceneVars

FbmResult(a, f) ==
  /\ SetGen(f.g)
  /\ ret' = [op |-> "fbm", args |-> a, value |-> f.value, evals |-> f.evals,
             maxValue |-> f.maxValue]

Fbm(a) ==
  /\ pc = "idle"
  /\ FbmResult(a, fbm(gen, a.x, a.y, a.z, a.octaves, a.persistence, a.scale))
  /\ calls' = calls + 1
  /\ UNCHANGED <<pc, req, cur, data, buffer, chan, synthCount, returned, noiseLog,
                 filled, stored>>
  /\ UNCHANGED sceneVars

\* the roughness rule applied to a given sample
RoughnessOf(type, n) ==
  /\ pc = "idle"
  /\ ret' = [op |-> "roughnessValue", type |-> type, sample |-> n,
             value |-> roughnessValue(type, n)]
  /\ UNCHANGED <<perm, init, rng, pc, req, cur, data, buffer, chan, synthCount,
                 returned, noiseLog, calls, filled, stored>>
  /\ UNCHANGED sceneVars

\* the colour rule of granite applied to given samples
GraniteOf(n1, n2, n3) ==
  /\ pc = "idle"
  /\ ret' = [op |-> "graniteColor", samples |-> <<n1, n2, n3>>,
             value |-> graniteColor(n1, n2, n3)]
  /\ UNCHANGED <<perm, init, rng, pc, req, cur, data, buffer, chan, synthCount,
                 returned, noiseLog, calls, filled, stored>>
  /\ UNCHANGED sceneVars

(***************************************************************************)
(* The generators, one loop iteration per step.  While a call runs no      *)
(* other call starts: the program is single-threaded.                      *)
(***************************************************************************)
\* ctx.createImageData(width, height) throws an IndexSizeError when a dimension is
\* zero (a negative one stands for its magnitude), and new Float32Array(width *
\* height) throws a RangeError when the length is negative
throws(r) ==
  \/ r.width = 0 \/ r.height = 0
  \/ r.gen = "normal" /\ r.width * r.height < 0

\* the number of iterations of "for (y < height) for (x < width)"
pixels(r) == IF r.width > 0 /\ r.height > 0 THEN r.width * r.height ELSE 0

\* the call ends with the exception, before TextureGenerator.setup()
Throw(r) ==
  /\ ret' = [op |-> "throw", req |-> r]
  /\ calls' = calls + 1
  /\ UNCHANGED <<perm, init, rng, pc, req, cur, data, buffer, chan, synthCount,
                 returned, noiseLog, filled, stored>>
  /\ UNCHANGED sceneVars

\* lines up to and including TextureGenerator.setup() of a generator
Start(r, loop) ==
  /\ SetGen(setup(gen))
  /\ pc' = loop
  /\ req' = r
  /\ cur' = 0
  /\ data' = [i \in 0..(4 * Abs(r.width) * Abs(r.height) - 1) |-> 0]
  /\ buffer' = IF r.gen = "normal" THEN [i \in 0..(r.width * r.height - 1) |-> I(0)]
               ELSE <<>>
  /\ chan' = [kind |-> "none"]
  /\ synthCount' = [synthCount EXCEPT ![r] = @ + 1]
  /\ calls' = calls + 1
  /\ filled' = {}
  /\ stored' = {}
  /\ UNCHANGED <<ret, returned, noiseLog>>
  /\ UNCHANGED sceneVars

Begin(r, loop) ==
  /\ pc = "idle"
  /\ IF throws(r) THEN Throw(r) ELSE Start(r, loop)

CreateOrganicTexture(r) == r.gen = "organic" /\ Begin(r, "organic")

CreateRoughnessMap(r) == r.gen = "roughness" /\ Begin(r, "roughness")

CreateNormalMap(r) == r.gen = "normal" /\ Begin(r, "height")

InLoop(loop) == pc = loop /\ cur < pixels(req)

AfterLoop(loop) == pc = loop /\ cur = pixels(req)

curX == cur % req.width

curY == cur \div req.width

OrganicStore(p) ==
  /\ SetGen(p.g)
  /\ data' = storePixel(data, cur * 4, p.assigned)
  /\ chan' = [kind |-> "organic", combined |-> p.combined, assigned |-> p.assigned]

OrganicStep ==
  /\ InLoop("organic")
  /\ OrganicStore(organicPixel(gen, req.type, Q(curX, req.width), Q(curY, req.height)))
  /\ cur' = cur + 1
  /\ stored' = stored \cup {cur}
  /\ UNCHANGED <<pc, req, buffer, ret, synthCount, returned, noiseLog, calls, filled>>
  /\ UNCHANGED sceneVars

RoughnessStore(p) ==
  /\ SetGen(p.g)
  /\ data' = storePixel(data, cur * 4, p.assigned)
  /\ chan' = [kind |-> "roughness", sample |-> p.sample, val |-> p.val,
              assigned |-> p.assigned]

RoughnessStep ==
  /\ InLoop("roughness")
  /\ RoughnessStore(roughnessPixel(gen, req.type, Q(curX, req.width), Q(curY, req.height)))
  /\ cur' = cur + 1
  /\ stored' = stored \cup {cur}
  /\ UNCHANGED <<pc, req, buffer, ret, synthCount, returned, noiseLog, calls, filled>>
  /\ UNCHANGED sceneVars

HeightStore(h) ==
  /\ SetGen(h.g)
  /\ buffer' = [buffer EXCEPT ![cur] = fround(h.value)]
  /\ chan' = [kind |-> "height", value |-> h.value]

HeightStep ==
  /\ InLoop("height")
  /\ HeightStore(heightSample(gen, req.type, Q(curX, req.width), Q(curY, req.height)))
  /\ cur' = cur + 1
  /\ filled' = filled \cup {cur}
  /\ UNCHANGED <<pc, req, data, ret, synthCount, returned, noiseLog, calls, stored>>
  /\ UNCHANGED sceneVars

\* the height loop is over, the gradient loop starts
SobelBegin ==
  /\ AfterLoop("height")
  /\ pc' = "sobel"
  /\ cur' = 0
  /\ UNCHANGED <<perm, init, rng, req, data, buffer, chan, ret, synthCount, returned,
                 noiseLog, calls, filled, stored>>
  /\ UNCHANGED sceneVars

SobelStore(p, rd) ==
  /\ data' = storePixel(data, cur * 4, p.assigned)
  /\ chan' = [kind |-> "sobel", reads |-> rd, dx |-> p.dx, dy |-> p.dy, dz |-> p.dz,
              len |-> p.len, assigned |-> p.assigned]

SobelStep ==
  /\ InLoop("sobel")
  /\ SobelStore(sobelPixel(buffer, req.width, req.height, curX, curY, I(req.strength)),
                sobelReads(req.width, req.height, curX, curY))
  /\ cur' = cur + 1
  /\ stored' = stored \cup {cur}
  /\ UNCHANGED <<perm, init, rng, pc, req, buffer, ret, synthCount, returned, noiseLog,
                 calls, filled>>
  /\ UNCHANGED sceneVars

\* ctx.putImageData, the overlays, and the return of the texture of the canvas
ReturnTexture(op, o) ==
  /\ rng' = o.rng
  /\ ret' = [op |-> op, req |-> req, pixels |-> o.canvas]
  /\ returned' = returned \cup {[req |-> req, pixels |-> o.canvas]}

Return(loop, op) ==
  /\ AfterLoop(loop)
  /\ ReturnTexture(op, overlays(data, rng, req.width, req.height,
                                IF req.gen = "organic" THEN req.type ELSE "none"))
  /\ pc' = "idle"
  /\ UNCHANGED <<perm, init, req, cur, data, buffer, chan, synthCount, noiseLog, calls,
                 filled, stored>>
  /\ UNCHANGED sceneVars

OrganicReturn == Return("organic", "createOrganicTexture")

RoughnessReturn == Return("roughness", "createRoughnessMap")

NormalReturn == Return("sobel", "createNormalMap")

Steps ==
  \/ OrganicStep \/ OrganicReturn
  \/ RoughnessStep \/ RoughnessReturn
  \/ HeightStep \/ SobelBegin \/ SobelStep \/ NormalReturn

(***************************************************************************)
(* The scene: GenerateParticles, ShishiOdoshi, and the haiku modal of App. *)
(***************************************************************************)
\* results of Math.random() in the scene
Draws == {<<0, 1>>, <<1, 2>>, <<999, 1000>>}

\* frame times in seconds (the delta of useFrame)
Deltas == {<<1, 2>>, <<2, 1>>}

Seasons == {"Spring", "Summer", "Autumn", "Winter"}

\* the properties SeasonalEffects passes to GenerateParticles
SeasonParams(season) ==
  CASE season = "Spring" -> [speedY |-> <<4, 5>>, speedX |-> <<1, 2>>, area |-> I(40)]
    [] season = "Summer" -> [speedY |-> <<-1, 10>>, speedX |-> <<1, 5>>, area |-> I(40)]
    [] season = "Autumn" -> [speedY |-> I(1), speedX |-> <<4, 5>>, area |-> I(40)]
    [] season = "Winter" -> [speedY |-> <<3, 2>>, speedX |-> <<3, 10>>, area |-> I(40)]

\* a particle as the two useMemo calls create it from four random numbers;
\* positions and seeds are Float32Arrays
particleInit(season, u) ==
  LET area == SeasonParams(season).area
  IN  [mounted |-> TRUE, season |-> season,
       x |-> fround(Mul(Sub(u[1], <<1, 2>>), area)),
       y |-> fround(Add(Mul(Mul(u[2], area), <<4, 5>>), I(2))),
       z |-> fround(Mul(Sub(u[3], <<1, 2>>), area)),
       seed |-> fround(Mul(Mul(u[4], <<22, 7>>), I(2))),
       t |-> I(0), frames |-> 0, reset |-> FALSE]

\* the body of the loop of the useFrame callback for one particle, at clock time
\* p.t + delta; u are the two random numbers of a reset; cos(a) is sin(a + pi / 2)
particleFrame(p, delta, u) ==
  LET c == SeasonParams(p.season)
      t == Add(p.t, delta)
      y == fround(Sub(p.y, Mul(Mul(c.speedY, delta),
                               Add(I(1), Mul(sin(Add(p.seed, t)), <<1, 5>>)))))
      x == fround(Add(p.x, Mul(Mul(sin(Add(Mul(t, <<1, 2>>), p.seed)), c.speedX), delta)))
      z == fround(Add(p.z, Mul(Mul(sin(Add(Add(Mul(t, <<3, 10>>), p.seed), <<11, 7>>)),
                                   c.speedX), delta)))
      low == Lt(y, I(0))
  IN  [p EXCEPT !.t = t, !.frames = @ + 1, !.reset = low,
                !.y = IF low THEN fround(Mul(c.area, <<3, 5>>)) ELSE y,
                !.x = IF low THEN fround(Mul(Sub(u[1], <<1, 2>>), c.area)) ELSE x,
                !.z = IF low THEN fround(Mul(Sub(u[2], <<1, 2>>), c.area)) ELSE z]

MountParticles ==
  /\ ~particles.mounted
  /\ \E season \in Seasons, u \in Draws \X Draws \X Draws \X Draws :
       particles' = particleInit(season, u)
  /\ UNCHANGED <<genVars, shishi, app>>

ParticleFrame ==
  /\ particles.mounted /\ particles.frames < MaxFrames
  /\ \E delta \in Deltas :
       \* random numbers are drawn only by a reset
       IF particleFrame(particles, delta, <<I(0), I(0)>>).reset
       THEN \E u \in Draws \X Draws : particles' = particleFrame(particles, delta, u)
       ELSE particles' = particleFrame(particles, delta, <<I(0), I(0)>>)
  /\ UNCHANGED <<genVars, shishi, app>>

\* fillLevel and rotation.z, doubles in the program, are counted in units of
\* 1 / Unit
Unit == 10000

\* THREE.MathUtils.lerp(x, y, t) for t = num / den, rounded to the unit
lerpTo(x, y, num, den) == x + ((y - x) * num * 2 + den) \div (2 * den)

\* a frame in state tipping that leaves fillLevel as it is
tippingFrameKeeping(s) ==
  LET rot == lerpTo(s.rotation, (-8 * Unit) \div 10, 15, 100)
  IN  [s EXCEPT !.rotation = rot,
                !.next = IF rot < (-7 * Unit) \div 10 THEN "returning" ELSE @]

\* a frame in state tipping that turns the tube to -0.6 only
tippingFrameShallow(s) ==
  LET rot == lerpTo(s.rotation, (-6 * Unit) \div 10, 15, 100)
      tipped == rot < (-7 * Unit) \div 10
  IN  [s EXCEPT !.rotation = rot,
                !.fillLevel = IF tipped THEN 0 ELSE @,
                !.next = IF tipped THEN "returning" ELSE @]

\* a frame in state tipping: lerp(rotation.z, -0.8, 0.15), then the test < -0.7
tippingFrame(s) ==
  LET rot == lerpTo(s.rotation, (-8 * Unit) \div 10, 15, 100)
      tipped == rot < (-7 * Unit) \div 10
  IN  [s EXCEPT !.rotation = rot,
                !.fillLevel = IF tipped THEN 0 ELSE @,
                !.next = IF tipped THEN "returning" ELSE @]

\* the useFrame callback of ShishiOdoshi: it sees the state of the last render,
\* and setState only schedules the next one
shishiFrame(s, delta) ==
  CASE s.state = "filling" ->
         LET level == s.fillLevel + (delta[1] * Unit) \div (2 * delta[2])
         IN  [s EXCEPT !.fillLevel = level,
                       !.next = IF level > Unit THEN "tipping" ELSE @,
                       !.rotation = lerpTo(@, level \div 10, 1, 10)]
    [] s.state = "tipping" -> tippingFrame(s)
    [] s.state = "returning" ->
         LET rot == lerpTo(s.rotation, 0, 2, 10)
         IN  [s EXCEPT !.rotation = rot,
                       !.next = IF -(Unit \div 20) < rot /\ rot < Unit \div 20
                                THEN "filling" ELSE @]

\* a frame; at most MaxStale frames run between a setState and its render
ShishiFrame ==
  /\ shishi.next = shishi.state \/ shishi.stale < MaxStale
  /\ \E delta \in Deltas :
       shishi' = [shishiFrame(shishi, delta) EXCEPT
                    !.stale = IF shishi.next # shishi.state THEN @ + 1 ELSE 0]
  /\ UNCHANGED <<genVars, particles, app>>

\* React renders the component with the scheduled state
ShishiRender ==
  /\ shishi.next # shishi.state
  /\ shishi' = [shishi EXCEPT !.state = shishi.next, !.stale = 0]
  /\ UNCHANGED <<genVars, particles, app>>

\* what App renders of the modal
modal(a) == [shown |-> a.activeHaiku # NoHaiku, haiku |-> a.activeHaiku]

\* the three ZenStones choose their haiku: HAIKUS[Math.floor(Math.random() * 8)]
MountStones ==
  /\ app.haiku = <<>>
  /\ \E u \in Draws \X Draws \X Draws :
       app' = [app EXCEPT !.haiku = [i \in 1..3 |-> Floor(Mul(u[i], I(8))) + 1],
                          !.event = [kind |-> "mount", arg |-> 0]]
  /\ UNCHANGED <<genVars, particles, shishi>>

\* onClick of the mesh of ZenStone number i: onInteract(haiku) is setActiveHaiku
ClickStone(i) ==
  /\ app.haiku # <<>>
  /\ app' = [app EXCEPT !.activeHaiku = app.haiku[i],
                        !.event = [kind |-> "stone", arg |-> i]]
  /\ UNCHANGED <<genVars, particles, shishi>>

\* a click on the panel that reaches the backdrop
onPanelClickBubbling(a) ==
  [a EXCEPT !.activeHaiku = NoHaiku, !.event = [kind |-> "panel", arg |-> 0]]

\* onClick of the inner panel: e.stopPropagation()
onPanelClick(a) == [a EXCEPT !.event = [kind |-> "panel", arg |-> 0]]

ClickPanel ==
  /\ modal(app).shown
  /\ app' = onPanelClick(app)
  /\ UNCHANGED <<genVars, particles, shishi>>

\* onClick of the backdrop: closeHaiku
ClickBackdrop ==
  /\ modal(app).shown
  /\ app' = [app EXCEPT !.activeHaiku = NoHaiku,
                        !.event = [kind |-> "backdrop", arg |-> 0]]
  /\ UNCHANGED <<genVars, particles, shishi>>

SetSeason(season) ==
  /\ app' = [app EXCEPT !.season = season, !.event = [kind |-> "season", arg |-> 0]]
  /\ UNCHANGED <<genVars, particles, shishi>>

SetTimeOfDay(time) ==
  /\ app' = [app EXCEPT !.timeOfDay = time, !.event = [kind |-> "time", arg |-> 0]]
  /\ UNCHANGED <<genVars, particles, shishi>>

(***************************************************************************)
(* Specifications.                                                         *)
(***************************************************************************)
\* a process run: up to MaxCalls calls of the scene and direct calls
SceneCall ==
  \E r \in SceneRequests :
    /\ calls < MaxCalls
    /\ (CreateOrganicTexture(r) \/ CreateRoughnessMap(r) \/ CreateNormalMap(r))

Next ==
  \/ Setup
  \/ \E c \in NoiseProbes : Noise(c)
  \/ \E a \in FbmProbes : calls < MaxCalls /\ Fbm(a)
  \/ SceneCall
  \/ Steps

Spec == Init /\ [][Next]_vars

\* one generator call on any of the pixel requests
PixelCall ==
  \E r \in PixelRequests :
    /\ calls = 0
    /\ (CreateOrganicTexture(r) \/ CreateRoughnessMap(r) \/ CreateNormalMap(r))

NextPixels == PixelCall \/ Steps

SpecPixels == Init /\ [][NextPixels]_vars

\* direct calls of fbm on the inputs FbmInputs
NextFbm == \E a \in FbmInputs : calls = 0 /\ Fbm(a)

SpecFbm == Init /\ [][NextFbm]_vars

\* one direct call of noise on the inputs NoiseInputs
NextNoise == \E c \in NoiseInputs : calls = 0 /\ Noise(c)

SpecNoise == Init /\ [][NextNoise]_vars

\* the roughness rules on the samples Samples
NextRoughness == \E t \in RoughnessTypes, n \in Samples : RoughnessOf(t, n)

SpecRoughness == Init /\ [][NextRoughness]_vars

\* one particle of a season, for up to MaxFrames frames
NextParticles == MountParticles \/ ParticleFrame

SpecParticles == Init /\ [][NextParticles]_vars

\* the ShishiOdoshi under frames and renders
NextShishi == ShishiFrame \/ ShishiRender

SpecShishi == Init /\ [][NextShishi]_vars

\* frames keep coming while the canvas is shown, and React renders every
\* scheduled state
SpecShishiLive ==
  Init /\ [][NextShishi]_vars /\ WF_vars(ShishiFrame) /\ WF_vars(ShishiRender)

\* clicks on the stones, the modal and the season and time buttons
NextApp ==
  \/ MountStones
  \/ \E i \in 1..3 : ClickStone(i)
  \/ ClickPanel
  \/ ClickBackdrop
  \/ \E season \in Seasons : SetSeason(season)
  \/ \E time \in {"Day", "Sunset", "Night"} : SetTimeOfDay(time)

SpecApp == Init /\ [][NextApp]_vars

\* the colour rule of granite applied once, on the samples BaseSamples and Samples
NextGranite ==
  \E n1 \in BaseSamples, n2 \in Samples, n3 \in Samples :
    ret.op = "none" /\ GraniteOf(n1, n2, n3)

SpecGranite == Init /\ [][NextGranite]_vars

(***************************************************************************)
(* Properties.                                                             *)
(***************************************************************************)
\* C1: in one process run the pixel loops of a generator are started at most
\* once for each distinct request (generator, material, width, height).
AtMostOneSynthesisPerKey == \A r \in Requests : synthCount[r] <= 1

\* C2: two calls with the same request return textures with the same pixels,
\* for every generator and material.
SameRequestSamePixels ==
  \A a \in returned, b \in returned : a.req = b.req => a.pixels = b.pixels

\* C3: once setup has completed, perm[0..255] holds every value of 0..255
\* exactly once (its 256 entries take the 256 values), and perm[i + 256] =
\* perm[i] for every i in 0..255.
PermIsPermutation ==
  init =>
    /\ {perm[i] : i \in 0..255} = 0..255
    /\ \A i \in 0..255 : perm[i + 256] = perm[i]

PermShuffled == init /\ \E i \in 0..255 : perm[i] # i

\* C4: once init is true no step changes perm, and a setup call made then
\* changes neither the table nor the state of Math.random.
TableFrozen ==
  [][(init => perm' = perm /\ init') /\ (init /\ Setup => rng' = rng)]_vars

RepeatedSetup == init /\ calls >= 2 /\ ret.op = "setup"

\* C5: two direct noise calls with the same coordinates return the same
\* value, whatever calls are made between them.
NoisePure ==
  \A a \in noiseLog, b \in noiseLog : a.args = b.args => a.value = b.value

NoiseRepeated ==
  \E a \in noiseLog, b \in noiseLog :
    /\ a.args = b.args /\ b.at >= a.at + 2 /\ a.value[1] # 0
    /\ \E r \in SceneRequests : synthCount[r] > 0

\* C6: the result of fbm with one octave is the noise at the coordinates
\* multiplied by the scale, for every persistence and scale.
FbmOneOctave ==
  (ret.op = "fbm" /\ ret.args.octaves = 1) =>
    ret.value = noiseP(perm, Mul(ret.args.x, ret.args.scale),
                       Mul(ret.args.y, ret.args.scale), Mul(ret.args.z, ret.args.scale))

FbmOneOctaveScaled ==
  /\ ret.op = "fbm" /\ ret.args.octaves = 1
  /\ ret.args.scale # <<1, 1>> /\ ret.args.persistence # <<1, 2>>
  /\ ret.value[1] # 0

\* C7: every pixel of the texture returned by createOrganicTexture has alpha
\* 255, for every value of the type parameter.
AlphaOpaque ==
  ret.op = "createOrganicTexture" =>
    \A k \in 0..(ret.req.width * ret.req.height - 1) : ret.pixels[4 * k + 3] = 255

\* the byte b is the number v clamped to [0, 255] and rounded to the nearest integer
ClampedByte(v, b) ==
  /\ Le(v, I(0)) => b = 0
  /\ Le(I(255), v) => b = 255
  /\ (Lt(I(0), v) /\ Lt(v, I(255))) =>
        Le(Sub(v, <<1, 2>>), I(b)) /\ Le(I(b), Add(v, <<1, 2>>))

\* C8: the R, G and B bytes of the pixel an iteration of createOrganicTexture
\* has written are the fully combined channel values clamped to [0, 255] (and
\* rounded to the nearest integer), never wrapped modulo 256.
ClampAfterCombine ==
  (chan.kind = "organic" /\ chan.combined # <<>>) =>
    \A c \in 1..3 : ClampedByte(chan.combined[c], data[(cur - 1) * 4 + c - 1])

GranitePixelWritten ==
  /\ chan.kind = "organic" /\ req.type = "granite"
  /\ chan.combined[1][2] # 1

\* C9 as stated: the scalar roughness of every sample of [-1, 1] is in [0, 1].
RoughnessInUnitInterval ==
  ret.op = "roughnessValue" => Le(I(0), ret.value) /\ Le(ret.value, I(1))

\* C9 amended: the scalar roughness of every sample of [-1, 1] is in
\* [-0.2, 1] for stone, in [-0.1, 0.5] for bamboo and in [0.6, 1] for sand.
RoughnessRange ==
  ret.op = "roughnessValue" =>
    /\ ret.type = "stone" => Le(<<-1, 5>>, ret.value) /\ Le(ret.value, I(1))
    /\ ret.type = "bamboo" => Le(<<-1, 10>>, ret.value) /\ Le(ret.value, <<1, 2>>)
    /\ ret.type = "sand" => Le(<<3, 5>>, ret.value) /\ Le(ret.value, I(1))

RoughnessNegative ==
  ret.op = "roughnessValue" /\ ret.type = "stone" /\ Lt(ret.value, I(0))

\* C10 as stated: every pixel of a sand roughness map has a roughness of at
\* least 0.8 and stored bytes of at least 0.8 * 255 = 204.
SandAtLeastBase ==
  (chan.kind = "roughness" /\ req.type = "sand") =>
    /\ Le(<<4, 5>>, chan.val)
    /\ \A c \in 0..2 : data[(cur - 1) * 4 + c] >= 204

\* C10 amended: every pixel of a sand roughness map has a roughness of at
\* least 0.6 and stored bytes of at least 0.6 * 255 = 153.
SandAtLeastFloor ==
  (chan.kind = "roughness" /\ req.type = "sand") =>
    /\ Le(<<3, 5>>, chan.val)
    /\ \A c \in 0..2 : data[(cur - 1) * 4 + c] >= 153

SandBelowBase ==
  /\ chan.kind = "roughness" /\ req.type = "sand"
  /\ Lt(chan.val, <<4, 5>>) /\ data[(cur - 1) * 4] < 204

\* the height field of the running createNormalMap call, repeated in both directions
Tiled(X, Y) == buffer[(Y % req.height) * req.width + (X % req.width)]

\* C11: the four neighbour reads of every pixel of the gradient pass use
\* coordinates wrapped modulo width and height, every read index is in
\* [0, width * height), and the gradient of a pixel is that of the repeated
\* height field at its column and at its column plus width (likewise for rows).
WrappedReads ==
  chan.kind = "sobel" =>
    LET w == req.width
        h == req.height
        x == (cur - 1) % w
        y == (cur - 1) \div w
    IN  /\ chan.reads.x1 = y * w + (IF x = 0 THEN w - 1 ELSE x - 1)
        /\ chan.reads.x2 = y * w + (IF x = w - 1 THEN 0 ELSE x + 1)
        /\ chan.reads.y1 = (IF y = 0 THEN h - 1 ELSE y - 1) * w + x
        /\ chan.reads.y2 = (IF y = h - 1 THEN 0 ELSE y + 1) * w + x
        /\ \A f \in DOMAIN chan.reads : chan.reads[f] \in 0..(w * h - 1)
        /\ chan.dx = Mul(Sub(Tiled(x + w - 1, y), Tiled(x + w + 1, y)), I(req.strength))
        /\ chan.dy = Mul(Sub(Tiled(x, y + h - 1), Tiled(x, y + h + 1)), I(req.strength))

LeftEdgeGradient ==
  /\ chan.kind = "sobel" /\ req.width >= 3 /\ (cur - 1) % req.width = 0
  /\ chan.dx[1] # 0

\* C12: with strength 0 dz, len and the numbers assigned to the pixel are
\* finite (no Infinity, no NaN).
StrengthFloor ==
  (chan.kind = "sobel" /\ req.strength = 0) =>
    /\ IsFinite(chan.dz) /\ IsFinite(chan.len)
    /\ \A c \in 1..4 : IsFinite(chan.assigned[c])

\* C13: no generator returns a texture for a width or height that is zero or
\* negative.
NoTextureForInvalidSize ==
  ret.op \in {"createOrganicTexture", "createRoughnessMap", "createNormalMap"} =>
    ret.req.width > 0 /\ ret.req.height > 0

\* C14: a step of the gradient pass is taken only when every one of the
\* width * height cells of the height buffer has been assigned, and a generator
\* returns only when the loop iteration of every one of its width * height
\* pixels has completed.
NoPartialResults ==
  [][/\ (pc = "sobel" /\ cur' = cur + 1) => filled = 0..(req.width * req.height - 1)
     /\ (pc # "idle" /\ pc' = "idle") => stored = 0..(req.width * req.height - 1)]_vars

\* the value noise tends to when coordinate number axis of c, an integer, is
\* approached from below: that of the cell before, at offset 1 along the axis
LeftLimit(c, axis) ==
  noiseCell(perm,
            noiseIndexes(perm, (Floor(c[1]) - (IF axis = 1 THEN 1 ELSE 0)) % 256,
                         (Floor(c[2]) - (IF axis = 2 THEN 1 ELSE 0)) % 256,
                         (Floor(c[3]) - (IF axis = 3 THEN 1 ELSE 0)) % 256),
            IF axis = 1 THEN I(1) ELSE Sub(c[1], I(Floor(c[1]))),
            IF axis = 2 THEN I(1) ELSE Sub(c[2], I(Floor(c[2]))),
            IF axis = 3 THEN I(1) ELSE Sub(c[3], I(Floor(c[3]))))

\* the largest value grad takes at the offsets (x, y, z), over the 16 hashes
GradMax(x, y, z) ==
  LET values == { grad(h, x, y, z) : h \in 0..15 }
  IN  CHOOSE m \in values : \A o \in values : Le(o, m)

\* the largest value noise takes at the offsets (x, y, z) of a cell, over all
\* the tables: the interpolation of the largest corner values (the weights are
\* not negative); the smallest value is the opposite
Envelope(x, y, z) ==
  LET u == fade(x)
      v == fade(y)
      w == fade(z)
      x1 == Sub(x, I(1))
      y1 == Sub(y, I(1))
      z1 == Sub(z, I(1))
  IN  lerp(w, lerp(v, lerp(u, GradMax(x, y, z), GradMax(x1, y, z)),
                      lerp(u, GradMax(x, y1, z), GradMax(x1, y1, z))),
              lerp(v, lerp(u, GradMax(x, y, z1), GradMax(x1, y, z1)),
                      lerp(u, GradMax(x, y1, z1), GradMax(x1, y1, z1))))

EnvelopeAt(c) ==
  Envelope(Sub(c[1], I(Floor(c[1]))), Sub(c[2], I(Floor(c[2]))),
           Sub(c[3], I(Floor(c[3]))))

\* C15: the value of noise lies in [-1.2, 1.2], for the table of the run and
\* (by the envelope) for every other table, and at a coordinate that is an
\* integer along an axis it is the value approached from the cell before along
\* that axis (the value in the cell after is the one noise returns).
NoiseBoundedContinuous ==
  ret.op = "noise" =>
    /\ Le(<<-6, 5>>, ret.value) /\ Le(ret.value, <<6, 5>>)
    /\ Le(EnvelopeAt(ret.args), <<6, 5>>)
    /\ Le(Neg(EnvelopeAt(ret.args)), ret.value) /\ Le(ret.value, EnvelopeAt(ret.args))
    /\ \A axis \in 1..3 :
         ret.args[axis][2] = 1 => ret.value = LeftLimit(ret.args, axis)

NoiseAtTableEnd ==
  /\ ret.op = "noise" /\ ret.args[1] = <<256, 1>> /\ ret.value[1] # 0

\* floor((r / d) * 2^k) for 0 <= r < d, by long division
RECURSIVE Binary(_, _, _, _)
Binary(r, d, k, acc) ==
  IF k = 0 THEN acc
  ELSE IF 2 * r >= d THEN Binary(2 * r - d, d, k - 1, 2 * acc + 1)
  ELSE Binary(2 * r, d, k - 1, 2 * acc)

\* the magnitude of v, at most 1, in units of 2^-14 (truncated)
Units(v) ==
  IF Abs(v[1]) >= v[2] THEN 16384 ELSE Binary(Abs(v[1]), v[2], 14, 0)

\* the squared length of the vector n in units of 2^-28
SquaredLength(n) ==
  Units(n[1]) * Units(n[1]) + Units(n[2]) * Units(n[2]) + Units(n[3]) * Units(n[3])

\* the vector encoded into the pixel of the last gradient step
Normal == <<Div(chan.dx, chan.len), Div(chan.dy, chan.len), Div(chan.dz, chan.len)>>

\* C16: the vector (dx/len, dy/len, dz/len) encoded into every pixel of every
\* normal map has a length within 1e-3 of 1: its components are numbers and its
\* squared length is between 0.998001 and 1.002001.
UnitNormals ==
  chan.kind = "sobel" =>
    /\ \A c \in 1..3 : IsFinite(Normal[c])
    /\ Cmp(998001, 1000000, SquaredLength(Normal), 268435456) <= 0
    /\ Cmp(SquaredLength(Normal), 268435456, 1002001, 1000000) <= 0

\* C17: the table is built once and before it is read: a step that ends a
\* noise or fbm call, or that leaves a generator call running, leaves init
\* true; the step that makes init true fills perm with the 256 values; and
\* init, once true, stays true.
TableBuiltOnce ==
  [][/\ init => init'
     /\ (calls' = calls + 1 /\ ret'.op \in {"noise", "fbm"}) => init'
     /\ pc' # "idle" => init'
     /\ (~init /\ init') => {perm'[i] : i \in 0..255} = 0..255]_vars

NoiseCalledFirst == init /\ calls = 1 /\ ret.op = "noise"

RECURSIVE Power(_, _)
Power(p, i) == IF i = 0 THEN I(1) ELSE Mul(p, Power(p, i - 1))

\* the noise of octave i of the fbm call with arguments a, times its amplitude
OctaveTerm(a, i) ==
  Mul(noiseP(perm, Mul(a.x, Mul(a.scale, I(Pow2(i)))),
             Mul(a.y, Mul(a.scale, I(Pow2(i)))),
             Mul(a.z, Mul(a.scale, I(Pow2(i))))),
      Power(a.persistence, i))

RECURSIVE WeightedSum(_, _)
WeightedSum(a, n) ==
  IF n = 0 THEN I(0) ELSE Add(WeightedSum(a, n - 1), OctaveTerm(a, n - 1))

RECURSIVE AmplitudeSum(_, _)
AmplitudeSum(p, n) ==
  IF n = 0 THEN I(0) ELSE Add(AmplitudeSum(p, n - 1), Power(p, n - 1))

\* C18: fbm with n >= 1 octaves calls noise n times and returns the sum of the
\* noise at frequency scale * 2^i times persistence^i, for i < n, divided by
\* the sum of the persistence^i; persistence defaults to 1/2 and scale to 1.
FbmWeightedAverage ==
  /\ DefaultPersistence = <<1, 2>> /\ DefaultScale = <<1, 1>>
  /\ (ret.op = "fbm" /\ ret.args.octaves >= 1) =>
        /\ ret.evals = ret.args.octaves
        /\ ret.value = Div(WeightedSum(ret.args, ret.args.octaves),
                           AmplitudeSum(ret.args.persistence, ret.args.octaves))

FbmThreeOctaves ==
  /\ ret.op = "fbm" /\ ret.args.octaves = 3 /\ ret.args.persistence = <<3, 5>>
  /\ ret.args.scale = <<3, 1>> /\ ret.value[1] # 0

\* C19: a granite channel is the base value times 160, 165 or 170, halved
\* exactly when n2 < 0.3, and then raised by 40 exactly when n3 > 0.7,
\* whatever the other test gives.
GraniteSpeckles ==
  ret.op = "graniteColor" =>
    LET base == Add(<<2, 5>>, Mul(ret.samples[1], <<3, 10>>))
        dark == Lt(ret.samples[2], <<3, 10>>)
        light == Lt(<<7, 10>>, ret.samples[3])
        channel(k) ==
          Add(IF dark THEN Mul(Mul(base, I(k)), <<1, 2>>) ELSE Mul(base, I(k)),
              IF light THEN I(40) ELSE I(0))
    IN  ret.value = <<channel(160), channel(165), channel(170)>>

GraniteDarkAndLight ==
  /\ ret.op = "graniteColor"
  /\ Lt(ret.samples[2], <<3, 10>>) /\ Lt(<<7, 10>>, ret.samples[3])

\* C20: the step that ends a generator call, the one that applies the
\* overlay, is taken after the last iteration of the pixel loop, leaves perm,
\* init and the image data alone, and unless the call is createOrganicTexture
\* with type bamboo it returns the image data as they are and draws no random
\* number.
OverlayOnlyBamboo ==
  [][(pc # "idle" /\ pc' = "idle") =>
       /\ cur = pixels(req) /\ stored = 0..(pixels(req) - 1)
       /\ perm' = perm /\ init' = init /\ data' = data
       /\ ~(req.gen = "organic" /\ req.type = "bamboo") =>
            ret'.pixels = data /\ rng' = rng]_vars

BambooScuffed ==
  /\ ret.op = "createOrganicTexture" /\ ret.req.type = "bamboo"
  /\ ret.req.width > 0 /\ ret.req.height > 0 /\ ret.pixels # data

\* C21: whatever the strength, the Z component dz / len of the normal of every
\* pixel is a number that is not negative, and so is the value dz / len * 255
\* assigned to the blue byte (the store never clamps it at 0).
ZNotNegative ==
  chan.kind = "sobel" =>
    /\ IsFinite(Normal[3]) /\ Le(I(0), Normal[3])
    /\ IsFinite(chan.assigned[3]) /\ Le(I(0), chan.assigned[3])

\* C22: an iteration of a generator's pixel loop is the only one for its pixel
\* (x, y), it writes the four bytes from (y * width + x) * 4 on, which lie in
\* [0, 4 * width * height), and it leaves every other byte as it was.
OneWriterPerPixel ==
  [][(pc \in {"organic", "roughness", "sobel"} /\ cur' = cur + 1) =>
       /\ cur = curY * req.width + curX
       /\ curX \in 0..(req.width - 1) /\ curY \in 0..(req.height - 1)
       /\ cur \notin stored /\ stored' = stored \cup {cur}
       /\ chan'.assigned # <<>>
       /\ 0 <= 4 * cur /\ 4 * cur + 3 < 4 * req.width * req.height
       /\ \A i \in DOMAIN data :
            (i < 4 * cur \/ i > 4 * cur + 3) => data'[i] = data[i]]_vars

\* lattice points, and the arguments of the FBM calls the generators make for
\* pixel (0, 0), where nx = ny = 0
LatticePoints ==
  {<<0, 0, 0>>, <<0, 0, 10>>, <<1, 2, 5>>, <<-1, 255, 256>>, <<-3, 40, 99>>}

OriginCalls ==
  {<<0, 4>>, <<10, 3>>, <<20, 2>>, <<5, 4>>, <<99, 5>>}

\* pixel (0, 0) of the albedo of a type, and of the roughness map of a type
OriginAlbedo(type) ==
  CASE type = "granite" -> <<32, 33, 34, 255>>
    [] type = "wood" -> <<120, 20, 15, 255>>
    [] type = "sand" -> <<200, 200, 195, 255>>

OriginRoughness(type) ==
  CASE type = "stone" -> <<102, 102, 102, 255>>
    [] type = "bamboo" -> <<51, 51, 51, 255>>
    [] type = "sand" -> <<204, 204, 204, 255>>

\* C27: on whatever table the run has, noise is exactly 0 at lattice points and
\* fbm is 0 at x = y = 0 with an integer z; pixel (0, 0) of a granite, wood or
\* sand albedo, of a roughness map and of a height buffer is the same constant
\* in every run.
ZeroOnLattice ==
  /\ \A c \in LatticePoints : noiseP(perm, I(c[1]), I(c[2]), I(c[3])) = I(0)
  /\ \A a \in OriginCalls :
       fbm(gen, I(0), I(0), I(a[1]), a[2], DefaultPersistence, DefaultScale).value = I(0)
  /\ (req.gen = "organic" /\ req.type \in {"granite", "wood", "sand"} /\ 0 \in stored) =>
       [i \in 1..4 |-> data[i - 1]] = OriginAlbedo(req.type)
  /\ (req.gen = "roughness" /\ 0 \in stored) =>
       [i \in 1..4 |-> data[i - 1]] = OriginRoughness(req.type)
  /\ (req.gen = "normal" /\ 0 \in filled) => buffer[0] = I(0)

OriginWritten ==
  /\ pc = "organic" /\ req.type = "sand" /\ req.width = 3 /\ cur = 2
  /\ [i \in 1..4 |-> data[i - 1]] = OriginAlbedo("sand")
  /\ [i \in 1..4 |-> data[i + 3]] # OriginAlbedo("sand")

\* C28: at the division total / maxValue of every call of fbm, the call with no
\* octaves included, maxValue is greater than 0 and the result is a number.
DivisorPositive ==
  ret.op = "fbm" => (Lt(I(0), ret.maxValue) /\ IsFinite(ret.value))

\* the indexes at which noise reads the table P in the cell (X, Y, Z)
Lookups(k, X) ==
  LET next(e) == IF e = Undefined THEN Undefined ELSE e + 1
  IN  {X, X + 1, k.A, next(k.A), k.B, next(k.B), k.AA, k.AB, k.BA, k.BB,
       next(k.AA), next(k.AB), next(k.BA), next(k.BB)}

\* C29: for every call of noise, negative coordinates included, X, Y and Z are
\* in 0..255 and every index at which the table is read is in 0..511.
LookupsInTable ==
  ret.op = "noise" =>
    LET X == cellIndex(ret.args[1])
        Y == cellIndex(ret.args[2])
        Z == cellIndex(ret.args[3])
    IN  /\ {X, Y, Z} \subseteq 0..255
        /\ Lookups(noiseIndexes(perm, X, Y, Z), X) \subseteq 0..511

\* a call at negative coordinates in the last cell of the table
NoiseAtNegative ==
  /\ ret.op = "noise"
  /\ ret.args[1] = I(-1) /\ ret.args[2] = <<511, 2>> /\ ret.args[3] = I(-1)
  /\ \E i \in Lookups(noiseIndexes(perm, 255, 255, 255), 255) : i > 256

\* the area particles are created in: x and z within area / 2 of the origin, y
\* between the ground and area * 0.8 + 2
InArea(p) ==
  LET c == SeasonParams(p.season)
      half == Div(c.area, I(2))
  IN  /\ Le(Neg(half), p.x) /\ Le(p.x, half)
      /\ Le(Neg(half), p.z) /\ Le(p.z, half)
      /\ Le(I(0), p.y) /\ Le(p.y, Add(Mul(c.area, <<4, 5>>), I(2)))

\* C23: after every frame update, for the parameters of each season, the
\* particle is inside the area: one that went below ground or out of the
\* bounds has been put back.
ParticlesKeptInArea ==
  (particles.mounted /\ particles.frames >= 1) => InArea(particles)

\* C24: the state of the ShishiOdoshi changes only from filling to tipping, from
\* tipping to returning and from returning to filling; fillLevel grows only in
\* frames run in state filling, is 0 when tipping is left, and so is 0 at the
\* start of every filling phase.
ShishiCycleOrder ==
  [][/\ shishi'.state # shishi.state =>
          <<shishi.state, shishi'.state>> \in
            {<<"filling", "tipping">>, <<"tipping", "returning">>,
             <<"returning", "filling">>}
     /\ shishi.fillLevel < shishi'.fillLevel =>
          (shishi.state = "filling" /\ shishi'.state = "filling")
     /\ (shishi.state = "tipping" /\ shishi'.state = "returning") =>
          shishi'.fillLevel = 0
     /\ (shishi.state # "filling" /\ shishi'.state = "filling") =>
          shishi'.fillLevel = 0]_vars

\* a filling phase after a full cycle: the tube comes back from below
SecondFilling ==
  /\ shishi.state = "filling" /\ shishi.fillLevel = 0
  /\ shishi.rotation < 0

\* C25: under frames that keep coming, each of the states filling, tipping and
\* returning is left again and again, so each recurs infinitely often.
ShishiNeverStuck ==
  /\ []<>(shishi.state = "filling")
  /\ []<>(shishi.state = "tipping")
  /\ []<>(shishi.state = "returning")

\* the lerp toward -0.8 has passed -0.7 and the return is scheduled
TippedOver ==
  /\ shishi.state = "tipping" /\ shishi.next = "returning"
  /\ shishi.rotation < (-7 * Unit) \div 10

\* C26: the modal is shown exactly while activeHaiku is not null; it opens only
\* by a click on a ZenStone, with the haiku of that stone, which never changes;
\* a click on the panel leaves it open with the same haiku, a click on the
\* backdrop closes it, and changes of season or time of day leave it as it is.
HaikuModal ==
  [][/\ modal(app').shown <=> app'.activeHaiku # NoHaiku
     /\ modal(app').shown => modal(app').haiku = app'.activeHaiku
     /\ (app'.activeHaiku # NoHaiku /\ app'.activeHaiku # app.activeHaiku) =>
          (app'.event.kind = "stone" /\ app'.activeHaiku = app.haiku[app'.event.arg])
     /\ app.haiku # <<>> => app'.haiku = app.haiku
     /\ app'.event.kind = "panel" =>
          (app.activeHaiku # NoHaiku /\ app'.activeHaiku = app.activeHaiku)
     /\ app'.event.kind = "backdrop" => app'.activeHaiku = NoHaiku
     /\ app'.event.kind \in {"season", "time"} =>
          app'.activeHaiku = app.activeHaiku]_vars

\* the season is changed while the modal shows the haiku of the third stone
SeasonChangedWhileOpen ==
  /\ app.haiku # <<>> /\ app.activeHaiku = app.haiku[3]
  /\ app.event.kind = "season" /\ app.season = "Winter"
====
